---- MODULE Spec2Model ----
(***************************************************************************)
(* Model of genetic.ino: a 64-step bassline sequencer whose sequence is    *)
(* the best genome of a population that is mutated (like) or randomised    *)
(* (dislike) at the end of every traversal.                                *)
(*                                                                         *)
(* The program state is the globals of genetic.ino.  millis() and          *)
(* last_time enter the program only through their difference               *)
(* current_time - last_time, which is an input of Tick.  The values        *)
(* returned by random(), analogRead() and digitalRead() are inputs too.    *)
(* Oscillator and envelope objects are summarised by the note handed to    *)
(* them by the last playStep (played).                                     *)
(***************************************************************************)
EXTENDS Integers, Sequences, FiniteSets, TLC

----------------------------------------------------------------------------
(* Program constants *)

NUM_STEPS == 64

NUM_NOTES == 12

NUM_OCTAVES == 4

NUM_WAVEFORMS == 4

NUM_GATES == 2

TABLE_COLS == 7

TABLE_CELLS == 49

NUM_CHORDS == 4

MUT_THRESHOLD == 1

TRIAL_RANGE == 100

SCORE_FLOOR == -9999

BPM_DIVISOR == 4

BPM_OFFSET == 60

MINUTE_MS == 60000

STEPS_PER_BEAT == 4

BYTE_RANGE == 256

(* Bounds of the model *)

POP_SIZE == 2

EvalSeeds == 5

Steps == 0 .. (NUM_STEPS - 1)

Members == 0 .. (POP_SIZE - 1)

Fields == {"note", "octave", "waveform", "gate"}

LOW == "LOW"

HIGH == "HIGH"

----------------------------------------------------------------------------
(* Library and language primitives *)

\* Storing an int into a byte keeps the low eight bits.
byte(v) == v % BYTE_RANGE

\* abs() of the Arduino core.
abs(x) == IF x > 0 THEN x ELSE -x

\* Mutant of random: the bound is included in the range.
randomInclusive(howbig, raw) == raw % (howbig + 1)

\* random(howbig) of the Arduino core: random() % howbig, where raw is the
\* value random() returns.
random(howbig, raw) == IF howbig = 0 THEN 0 ELSE raw % howbig

----------------------------------------------------------------------------
(* Tables *)

\* The initialiser of JAZZ_TABLE as written, row after row.
JAZZ_TABLE_INIT ==
  << 10,  0,   7,  0,   5,  0,   3,
     10,  0,   5,  0,   7,  0,   3,
     10,  0,   7,  0,   5, -5, -10,
     10, -5, -10, -5, -10, -5, -10,
     10, -5, -10, -5, -10, -5, -10,
     10, -5, -10, -5, -10, -5, -10,
     10, -5, -10, -5, -10, -5, -10 >>

\* JAZZ_TABLE is an array of byte: each initialiser is narrowed to 0..255.
JAZZ_TABLE == [k \in 1 .. TABLE_CELLS |-> byte(JAZZ_TABLE_INIT[k])]

\* JAZZ_TABLE[row][col]: the object is 49 contiguous bytes and the access is
\* the byte at offset row * 7 + col, also for col >= 7.
TableRead(row, col) == JAZZ_TABLE[row * TABLE_COLS + col + 1]

CHORD_PROGRESSION == << <<0, 0>>, <<1, 9>>, <<2, 7>>, <<1, 2>> >>

ChordAt(seg, k) == CHORD_PROGRESSION[seg + 1][k + 1]

----------------------------------------------------------------------------
(* Genomes and the population *)

\* struct Genome: four arrays of NUM_STEPS bytes.
Genome == [note : [Steps -> 0 .. (BYTE_RANGE - 1)],
           octave : [Steps -> 0 .. (BYTE_RANGE - 1)],
           waveform : [Steps -> 0 .. (BYTE_RANGE - 1)],
           gate : [Steps -> 0 .. (BYTE_RANGE - 1)]]

\* A global Genome before setup: static storage is zero-initialised.
ZeroGenome == [f \in Fields |-> [j \in Steps |-> 0]]

\* initPopulation: every field of every step of every genome is assigned a
\* fresh random(n); rnd[i][j][f] is the value random() returns for that draw.
initPopulation(rnd) ==
  [i \in Members |->
     [note     |-> [j \in Steps |-> byte(random(NUM_NOTES, rnd[i][j].note))],
      octave   |-> [j \in Steps |-> byte(random(NUM_OCTAVES, rnd[i][j].octave))],
      waveform |-> [j \in Steps |-> byte(random(NUM_WAVEFORMS, rnd[i][j].waveform))],
      gate     |-> [j \in Steps |-> byte(random(NUM_GATES, rnd[i][j].gate))]]]

\* Mutant of mutateField: the trial is compared with <= instead of <.
mutateFieldLe(old, howbig, d, threshold) ==
  IF random(TRIAL_RANGE, d.trial) <= threshold
    THEN byte(random(howbig, d.value))
    ELSE old

\* One field of mutatePopulation: if (random(100) < rate * 100) field = random(n).
mutateField(old, howbig, d, threshold) ==
  IF random(TRIAL_RANGE, d.trial) < threshold
    THEN byte(random(howbig, d.value))
    ELSE old

\* mutatePopulation with the comparison value rate * 100 as a parameter;
\* d[i][j][f] holds the two values random() returns for field f of step j of
\* genome i (the trial, and the new value when the trial succeeds).
mutateWithRate(pop, d, threshold) ==
  [i \in Members |->
     [note     |-> [j \in Steps |->
                      mutateField(pop[i].note[j], NUM_NOTES, d[i][j].note, threshold)],
      octave   |-> [j \in Steps |->
                      mutateField(pop[i].octave[j], NUM_OCTAVES, d[i][j].octave, threshold)],
      waveform |-> [j \in Steps |->
                      mutateField(pop[i].waveform[j], NUM_WAVEFORMS, d[i][j].waveform, threshold)],
      gate     |-> [j \in Steps |->
                      mutateField(pop[i].gate[j], NUM_GATES, d[i][j].gate, threshold)]]]

\* mutatePopulation: MUT_RATE * 100 is 1, so a field mutates iff random(100) is 0.
mutatePopulation(pop, d) == mutateWithRate(pop, d, MUT_THRESHOLD)

----------------------------------------------------------------------------
(* Scoring *)

\* byte scale_degree = (note - chord_root + NUM_NOTES) % NUM_NOTES
scaleDegree(note, chord_root) == byte((note - chord_root + NUM_NOTES) % NUM_NOTES)

\* The body of the loop of evaluateGenome for step i: the amount added to score.
stepScore(genome, i) ==
  LET note == genome.note[i]
      octave == genome.octave[i]
      waveform == genome.waveform[i]
      gate == genome.gate[i]
      chord_type == ChordAt(i \div (NUM_STEPS \div NUM_CHORDS), 0)
      chord_root == ChordAt(i \div (NUM_STEPS \div NUM_CHORDS), 1)
      scale_degree == scaleDegree(note, chord_root)
      harmony == TableRead(chord_type, scale_degree)
                   - abs(octave - 1) * 2 - abs(waveform - 1) * 2
  IN IF i > 0
       THEN LET prev_note == genome.note[i - 1]
                prev_octave == genome.octave[i - 1]
                prev_gate == genome.gate[i - 1]
                interval == note + octave * NUM_NOTES
                              - prev_note - prev_octave * NUM_NOTES
            IN harmony - abs(interval)
                 - (IF interval = 0 /\ gate = 1 /\ prev_gate = 1 THEN 5 ELSE 0)
       ELSE harmony

\* The sum of stepScore over the steps lo .. hi - 1.  The loop adds the
\* steps in order; every partial sum stays within -3520 .. 16064, inside a
\* 16-bit int, so the grouping of the additions does not change the result.
RECURSIVE scoreOver(_, _, _)
scoreOver(genome, lo, hi) ==
  IF hi - lo = 1 THEN stepScore(genome, lo)
  ELSE LET mid == (lo + hi) \div 2
       IN scoreOver(genome, lo, mid) + scoreOver(genome, mid, hi)

\* evaluateGenome: score starts at zero and accumulates over all the steps.
evaluateGenome(genome) == 0 + scoreOver(genome, 0, NUM_STEPS)

\* Mutant of better: an equal score replaces the best.
betterOrEqual(score, best) == score >= best

\* Mutant of better: the comparison is reversed.
betterBelow(score, best) == score < best

\* The comparison of evaluatePopulation that installs a new best.
better(score, best) == score > best

\* Mutant of bestFrom: the best score is updated, the best genome is not.
RECURSIVE bestFromStale(_, _, _)
bestFromStale(pop, i, best) ==
  IF i = POP_SIZE THEN best
  ELSE LET score == evaluateGenome(pop[i])
       IN bestFromStale(pop, i + 1,
                        IF better(score, best.score)
                          THEN [score |-> score, genome |-> best.genome]
                          ELSE best)

\* The loop of evaluatePopulation from genome i on.
RECURSIVE bestFrom(_, _, _)
bestFrom(pop, i, best) ==
  IF i = POP_SIZE THEN best
  ELSE LET score == evaluateGenome(pop[i])
       IN bestFrom(pop, i + 1,
                   IF better(score, best.score)
                     THEN [score |-> score, genome |-> pop[i]]
                     ELSE best)

\* evaluatePopulation: best_score restarts at -9999, best_genome keeps its
\* old value until a genome scores above best_score.
evaluatePopulation(pop, old_best) ==
  bestFrom(pop, 0, [score |-> SCORE_FLOOR, genome |-> old_best])

----------------------------------------------------------------------------
(* Playback *)

\* playStep: the note, octave, waveform and gate read from best_genome at
\* current_step and handed to the oscillators and envelopes.
playStep(genome, step) ==
  [step |-> step,
   note |-> genome.note[step],
   octave |-> genome.octave[step],
   waveform |-> genome.waveform[step],
   gate |-> genome.gate[step]]

\* Mutant of toggleBeat: the level is set, not toggled.
toggleBeatHigh(level) == TRUE

\* beat_on = !beat_on
toggleBeat(level) == ~level

\* analogRead(BPM_PIN) / 4 + 60
bpmOf(reading) == reading \div BPM_DIVISOR + BPM_OFFSET

\* Mutant of stepTimeOf: the division by the four steps of a beat is missing.
stepTimeOfBeat(bpm) == MINUTE_MS \div bpm

\* 60000 / current_bpm / 4
stepTimeOf(bpm) == (MINUTE_MS \div bpm) \div STEPS_PER_BEAT

----------------------------------------------------------------------------
(* Inputs: the values returned by random(), analogRead() and digitalRead() *)

\* The values random() returns while one genome is initialised, one family
\* member per seed.  Seed 0 yields note 0, octave 1, waveform 1 and the gate
\* alternating from 1; seeds 2k-1 and 2k yield the same notes, octaves and
\* gates and the waveforms 0 and 2.
GenomeDraws(seed) ==
  [j \in Steps |->
     IF seed = 0
       THEN [note |-> 12 * j, octave |-> 1 + 4 * j, waveform |-> 5, gate |-> j + 1]
       ELSE LET k == (seed + 1) \div 2
            IN [note |-> 7 * k * j + 5 * (k - 1),
                octave |-> (j \div 16) + k,
                waveform |-> IF seed % 2 = 1 THEN 4 * j ELSE 4 * j + 2,
                gate |-> k * j + (j \div 3)]]

InitDraws(seeds) == [i \in Members |-> GenomeDraws(seeds[i])]

\* The fields whose trial may succeed during a mutation pass of the model.
CandidateSites == { <<0, 0, "note">>, <<POP_SIZE - 1, NUM_STEPS - 1, "gate">> }

\* The values random() returns during one mutation pass in which the trials
\* of exactly the sites in hits succeed.
MutDraws(hits) ==
  [i \in Members |-> [j \in Steps |-> [f \in Fields |->
     [trial |-> IF <<i, j, f>> \in hits THEN 100 ELSE 101 + j,
      value |-> IF f = "note" THEN 19 ELSE 3]]]]

NoDraws == << >>

AnalogReads == {0, 1023}

ElapsedTimes == {47, 250}

Pins == {LOW, HIGH}

Contains(todo, op) == \E k \in 1 .. Len(todo) : todo[k] = op

\* The seeds the sequencer draws its genomes from, and those the scoring
\* functions are applied to.
SeqSeeds == {0, 1}

ScoreSeeds == 0 .. (EvalSeeds - 1)

InitChoices(todo, seeds) ==
  IF Contains(todo, "initPopulation")
    THEN { InitDraws(s) : s \in [Members -> seeds] }
    ELSE { NoDraws }

MutChoices(todo) ==
  IF Contains(todo, "mutatePopulation")
    THEN { MutDraws(h) : h \in SUBSET CandidateSites }
    ELSE { NoDraws }

----------------------------------------------------------------------------
(* State *)

VARIABLES
  population,       \* Genome population[POP_SIZE]
  best_genome,      \* Genome best_genome
  best_score,       \* int best_score
  current_step,     \* int current_step
  current_bpm,      \* int current_bpm
  step_time,        \* unsigned long step_time
  beat_on,          \* bool beat_on
  like_pressed,     \* bool like_pressed
  dislike_pressed,  \* bool dislike_pressed
  played,           \* what the last playStep handed to the oscillators
  event,            \* the handler that ran last
  ops,              \* the population passes the last handler ran, in order
  latched,          \* updateControl saw a pressed button since the last wrap
  arg_genome,       \* the argument of the last direct evaluateGenome call
  ret_score,        \* and the value it returned
  mut_in,           \* the rate and trials of the last direct mutation pass
  bpm_reading       \* the value of the last analogRead(BPM_PIN)

vars == << population, best_genome, best_score, current_step, current_bpm,
           step_time, beat_on, like_pressed, dislike_pressed, played, event,
           ops, latched, arg_genome, ret_score, mut_in,
           bpm_reading >>

NotPlayed == [step |-> -1, note |-> 0, octave |-> 0, waveform |-> 0, gate |-> 0]

NotMutated == [threshold |-> -1, hits |-> {}]

----------------------------------------------------------------------------
(* The sequencer *)

\* Mutant of sequenceEnd: the sequence ends one step early.
sequenceEndEarly(step) == step = NUM_STEPS - 1

\* Mutant of sequenceEnd: the comparison is <= instead of ==.
sequenceEndAny(step) == step <= NUM_STEPS

\* if (current_step == NUM_STEPS)
sequenceEnd(step) == step = NUM_STEPS

\* Mutant of feedback: the second branch is an if, not an else if.
feedbackBoth(like, dislike) ==
  [like |-> FALSE, dislike |-> FALSE,
   ops |-> (IF like THEN << "mutatePopulation", "evaluatePopulation" >> ELSE << >>)
             \o (IF dislike THEN << "initPopulation", "evaluatePopulation" >> ELSE << >>)]

\* Mutant of feedback: the dislike branch is missing.
feedbackLikeOnly(like, dislike) ==
  IF like
    THEN [like |-> FALSE, dislike |-> dislike,
          ops |-> << "mutatePopulation", "evaluatePopulation" >>]
    ELSE [like |-> like, dislike |-> dislike, ops |-> << >>]

\* Mutant of feedback: evaluatePopulation is not called after the mutation.
feedbackNoEval(like, dislike) ==
  IF like
    THEN [like |-> FALSE, dislike |-> dislike, ops |-> << "mutatePopulation" >>]
    ELSE IF dislike
      THEN [like |-> like, dislike |-> FALSE,
            ops |-> << "initPopulation", "evaluatePopulation" >>]
      ELSE [like |-> like, dislike |-> dislike, ops |-> << >>]

\* The body run at the end of the sequence: which flag is consumed and which
\* population passes run.
feedback(like, dislike) ==
  IF like
    THEN [like |-> FALSE, dislike |-> dislike,
          ops |-> << "mutatePopulation", "evaluatePopulation" >>]
    ELSE IF dislike
      THEN [like |-> like, dislike |-> FALSE,
            ops |-> << "initPopulation", "evaluatePopulation" >>]
      ELSE [like |-> like, dislike |-> dislike, ops |-> << >>]

\* One population pass applied to the engine state.
applyOp(op, st, rnd) ==
  IF op = "mutatePopulation"
    THEN [st EXCEPT !.population = mutatePopulation(st.population, rnd.mutate)]
  ELSE IF op = "initPopulation"
    THEN [st EXCEPT !.population = initPopulation(rnd.init)]
  ELSE LET b == evaluatePopulation(st.population, st.best_genome)
       IN [st EXCEPT !.best_genome = b.genome, !.best_score = b.score]

RECURSIVE runOps(_, _, _)
runOps(todo, st, rnd) ==
  IF todo = << >> THEN st
  ELSE runOps(Tail(todo), applyOp(Head(todo), st, rnd), rnd)

\* setup(): the state in which loop() is first called.
Init ==
  \E seeds \in [Members -> SeqSeeds], reading \in AnalogReads :
    LET pop == initPopulation(InitDraws(seeds))
        b == evaluatePopulation(pop, ZeroGenome)
    IN /\ population = pop
       /\ best_genome = b.genome
       /\ best_score = b.score
       /\ current_step = 0
       /\ current_bpm = bpmOf(reading)
       /\ step_time = stepTimeOf(bpmOf(reading))
       /\ beat_on = FALSE
       /\ like_pressed = FALSE
       /\ dislike_pressed = FALSE
       /\ played = NotPlayed
       /\ event = "setup"
       /\ ops = << "initPopulation", "evaluatePopulation" >>
       /\ latched = FALSE
       /\ arg_genome = ZeroGenome
       /\ ret_score = 0
       /\ mut_in = NotMutated
       /\ bpm_reading = reading

\* loop() when the step interval has passed; elapsed is current_time - last_time.
Tick ==
  /\ \E elapsed \in ElapsedTimes : elapsed >= step_time
  /\ LET wrapped == sequenceEnd(current_step + 1)
         fb == IF wrapped
                 THEN feedback(like_pressed, dislike_pressed)
                 ELSE [like |-> like_pressed, dislike |-> dislike_pressed,
                       ops |-> << >>]
     IN \E ri \in InitChoices(fb.ops, SeqSeeds), rm \in MutChoices(fb.ops) :
          LET st == runOps(fb.ops,
                           [population |-> population,
                            best_genome |-> best_genome,
                            best_score |-> best_score],
                           [init |-> ri, mutate |-> rm])
          IN /\ played' = playStep(best_genome, current_step)
             /\ current_step' = IF wrapped THEN 0 ELSE current_step + 1
             /\ like_pressed' = fb.like
             /\ dislike_pressed' = fb.dislike
             /\ population' = st.population
             /\ best_genome' = st.best_genome
             /\ best_score' = st.best_score
             /\ ops' = fb.ops
             /\ latched' = IF wrapped THEN FALSE ELSE latched
  /\ beat_on' = toggleBeat(beat_on)
  /\ \E reading \in AnalogReads :
       /\ bpm_reading' = reading
       /\ current_bpm' = bpmOf(reading)
       /\ step_time' = stepTimeOf(bpmOf(reading))
  /\ event' = "tick"
  /\ UNCHANGED << arg_genome, ret_score, mut_in >>

\* updateControl(), called by the audio library between two loop() bodies.
UpdateControl ==
  \E like_pin \in Pins, dislike_pin \in Pins :
    /\ like_pressed' = IF like_pin = LOW THEN TRUE ELSE like_pressed
    /\ dislike_pressed' = IF dislike_pin = LOW THEN TRUE ELSE dislike_pressed
    /\ latched' = (latched \/ like_pin = LOW \/ dislike_pin = LOW)
    /\ event' = "control"
    /\ ops' = << >>
    /\ UNCHANGED << population, best_genome, best_score, current_step,
                    current_bpm, step_time, beat_on, played, arg_genome,
                    ret_score, mut_in, bpm_reading >>

Next == Tick \/ UpdateControl

Spec == Init /\ [][Next]_vars

----------------------------------------------------------------------------
(* The scoring functions on their own *)

InitEval ==
  \E seeds \in [Members -> ScoreSeeds] :
    /\ population = initPopulation(InitDraws(seeds))
    /\ best_genome = ZeroGenome
    /\ best_score = 0
    /\ current_step = 0
    /\ current_bpm = bpmOf(0)
    /\ step_time = stepTimeOf(bpmOf(0))
    /\ beat_on = FALSE
    /\ like_pressed = FALSE
    /\ dislike_pressed = FALSE
    /\ played = NotPlayed
    /\ event = "draw"
    /\ ops = << "initPopulation" >>
    /\ latched = FALSE
    /\ arg_genome = ZeroGenome
    /\ ret_score = 0
    /\ mut_in = NotMutated
    /\ bpm_reading = 0

\* evaluatePopulation() alone.
EvaluatePopulation ==
  LET b == evaluatePopulation(population, best_genome)
  IN /\ best_genome' = b.genome
     /\ best_score' = b.score
     /\ event' = "evaluate"
     /\ ops' = << "evaluatePopulation" >>
     /\ UNCHANGED << population, current_step, current_bpm, step_time, beat_on,
                     like_pressed, dislike_pressed, played, latched,
                     arg_genome, ret_score, mut_in, bpm_reading >>

\* evaluateGenome(population[i]) alone.
ScoreGenome ==
  \E i \in Members :
    /\ arg_genome' = population[i]
    /\ ret_score' = evaluateGenome(population[i])
    /\ event' = "score"
    /\ ops' = << >>
    /\ UNCHANGED << population, best_genome, best_score, current_step,
                    current_bpm, step_time, beat_on, like_pressed,
                    dislike_pressed, played, latched, mut_in, bpm_reading >>

NextEval == EvaluatePopulation \/ ScoreGenome

SpecEval == InitEval /\ [][NextEval]_vars

----------------------------------------------------------------------------
(* The mutation pass on its own *)

\* The four fields of one gene: the trials that may succeed in a direct pass.
GeneSites == { <<0, 3, f>> : f \in Fields }

\* The direct passes of the model: the comparison value rate * 100 for the
\* rates 0 and 1 with no or all trials of the gene drawing 0, and for MUT_RATE
\* with every subset of them drawing 0.
MutCases ==
  { [threshold |-> t, hits |-> h] : t \in {0, TRIAL_RANGE}, h \in {{}, GeneSites} }
    \cup { [threshold |-> MUT_THRESHOLD, hits |-> h] : h \in SUBSET GeneSites }

InitMut ==
  \E seeds \in [Members -> SeqSeeds] :
    /\ population = initPopulation(InitDraws(seeds))
    /\ best_genome = ZeroGenome
    /\ best_score = 0
    /\ current_step = 0
    /\ current_bpm = bpmOf(0)
    /\ step_time = stepTimeOf(bpmOf(0))
    /\ beat_on = FALSE
    /\ like_pressed = FALSE
    /\ dislike_pressed = FALSE
    /\ played = NotPlayed
    /\ event = "draw"
    /\ ops = << "initPopulation" >>
    /\ latched = FALSE
    /\ arg_genome = ZeroGenome
    /\ ret_score = 0
    /\ mut_in = NotMutated
    /\ bpm_reading = 0

\* The loops of mutatePopulation() alone, run with a given rate.
MutatePass ==
  \E c \in MutCases :
    /\ population' = mutateWithRate(population, MutDraws(c.hits), c.threshold)
    /\ mut_in' = c
    /\ event' = "mutate"
    /\ ops' = << "mutatePopulation" >>
    /\ UNCHANGED << best_genome, best_score, current_step, current_bpm,
                    step_time, beat_on, like_pressed, dislike_pressed, played,
                    latched, arg_genome, ret_score, bpm_reading >>

NextMut == MutatePass

SpecMut == InitMut /\ [][NextMut]_vars

----------------------------------------------------------------------------
(* Properties *)

Reinforce == << "mutatePopulation", "evaluatePopulation" >>

Reset == << "initPopulation", "evaluatePopulation" >>

\* C1: every tick plays the step after the one played before, modulo 64,
\* starting with step 0, and leaves current_step inside 0 .. 63.
C1_StepCycle ==
  [][event' = "tick" =>
       /\ played'.step = current_step
       /\ played'.step = (IF played.step = -1 THEN 0
                          ELSE (played.step + 1) % NUM_STEPS)
       /\ current_step' = (current_step + 1) % NUM_STEPS
       /\ current_step' \in 0 .. (NUM_STEPS - 1)]_vars

\* C1 witness: the tick that played step 63 and wrapped to step 0.
C1_Wrapped == event = "tick" /\ played.step = NUM_STEPS - 1 /\ current_step = 0

\* C2: a tick runs nothing, reinforce or reset, and only at the wrap; with
\* both flags latched at the wrap it runs reinforce.
C2_AtMostOne ==
  [][event' = "tick" =>
       /\ ops' \in { << >>, Reinforce, Reset }
       /\ (ops' # << >> => current_step = NUM_STEPS - 1)
       /\ (current_step = NUM_STEPS - 1 /\ like_pressed /\ dislike_pressed
             => ops' = Reinforce)]_vars

\* C2 witness: reinforce ran at a wrap at which dislike was latched as well.
C2_BothLatched ==
  event = "tick" /\ current_step = 0 /\ ops = Reinforce /\ dislike_pressed

\* C3 (as claimed): after a wrap tick that ran reinforce or reset both
\* flags are false.
C3_BothCleared ==
  (event = "tick" /\ ops # << >>) => (~like_pressed /\ ~dislike_pressed)

\* C4 (as claimed): reinforce or reset runs at a wrap only if updateControl
\* latched a press during the traversal that the wrap ends.
C4_OnlyIfLatched ==
  [][(event' = "tick" /\ ops' # << >>) => latched]_vars

\* C5: a press latched during a traversal makes the wrap that ends it run
\* reinforce or reset; the ticks before the wrap run neither, keep the
\* flags and play their step from best_genome.
C5_NeverLost ==
  [][event' = "tick" =>
       IF current_step = NUM_STEPS - 1
         THEN (latched => ops' # << >>)
         ELSE /\ ops' = << >>
              /\ latched' = latched
              /\ like_pressed' = like_pressed
              /\ dislike_pressed' = dislike_pressed
              /\ played' = playStep(best_genome, current_step)]_vars

\* C5 witness: reset ran at the wrap for a latched dislike.
C5_ResetFired ==
  event = "tick" /\ played.step = NUM_STEPS - 1 /\ ops = Reset
    /\ ~like_pressed /\ ~dislike_pressed

\* C6: population, best_genome and best_score change only on the tick that
\* wraps from step 63 to step 0, and every tick plays from the best_genome
\* it found.
C6_OnlyAtWrap ==
  [][/\ (population' # population \/ best_genome' # best_genome
           \/ best_score' # best_score)
          => (event' = "tick" /\ current_step = NUM_STEPS - 1 /\ current_step' = 0)
     /\ (event' = "tick" => played' = playStep(best_genome, current_step))]_vars

\* C6 witness: the wrap replaced best_genome by one whose last note differs
\* from the note just played.
C6_Replaced ==
  /\ event = "tick" /\ current_step = 0 /\ played.step = NUM_STEPS - 1
  /\ played.note # best_genome.note[NUM_STEPS - 1]

\* The first index whose score is the maximum over the population.
FirstBest(pop) ==
  CHOOSE k \in Members :
    /\ \A i \in Members : evaluateGenome(pop[i]) <= evaluateGenome(pop[k])
    /\ \A i \in Members : i < k => evaluateGenome(pop[i]) < evaluateGenome(pop[k])

\* C7: after evaluatePopulation best_score is the maximum score of the
\* population and best_genome is the first genome that scores it.
C7_Selection ==
  event = "evaluate" =>
    /\ best_score = evaluateGenome(population[FirstBest(population)])
    /\ best_genome = population[FirstBest(population)]

\* C7 witness: two different genomes share the maximum and the first is best.
C7_Tie ==
  /\ event = "evaluate"
  /\ \E i, k \in Members :
       /\ i < k
       /\ population[i] # population[k]
       /\ evaluateGenome(population[i]) = best_score
       /\ evaluateGenome(population[k]) = best_score
       /\ best_genome = population[i]

InDomain(genome) ==
  \A j \in Steps :
    /\ genome.note[j] \in 0 .. (NUM_NOTES - 1)
    /\ genome.octave[j] \in 0 .. (NUM_OCTAVES - 1)
    /\ genome.waveform[j] \in 0 .. (NUM_WAVEFORMS - 1)
    /\ genome.gate[j] \in {0, 1}

\* C8: every gene of every genome of the population and of best_genome is
\* inside its domain.
C8_Domains ==
  /\ \A i \in Members : InDomain(population[i])
  /\ InDomain(best_genome)

\* C8 witness: a mutation pass has just redrawn the first note of genome 0.
C8_Mutated ==
  /\ event = "tick" /\ ops = Reinforce
  /\ population[0].note[0] = 7

\* C9 (as claimed): the BPM is within 60 .. 300 and the step interval within
\* 50 .. 250 ms.
C9_BpmClamped ==
  /\ current_bpm \in 60 .. 300
  /\ step_time \in 50 .. 250

\* The score of spec section 4.2, with the table entries as written.
SignedStepScore(genome, i) ==
  LET seg == i \div (NUM_STEPS \div NUM_CHORDS)
      degree == (genome.note[i] - ChordAt(seg, 1) + 12) % 12
      pitch(j) == genome.note[j] + 12 * genome.octave[j]
  IN JAZZ_TABLE_INIT[ChordAt(seg, 0) * TABLE_COLS + degree + 1]
       - abs(genome.octave[i] - 1) * 2
       - abs(genome.waveform[i] - 1) * 2
       - (IF i > 0 THEN abs(pitch(i) - pitch(i - 1)) ELSE 0)
       - (IF i > 0 /\ pitch(i) = pitch(i - 1)
             /\ genome.gate[i] = 1 /\ genome.gate[i - 1] = 1 THEN 5 ELSE 0)

RECURSIVE SignedScoreOver(_, _, _)
SignedScoreOver(genome, lo, hi) ==
  IF hi - lo = 1 THEN SignedStepScore(genome, lo)
  ELSE LET mid == (lo + hi) \div 2
       IN SignedScoreOver(genome, lo, mid) + SignedScoreOver(genome, mid, hi)

\* C10 (as claimed): evaluateGenome returns the signed sum of the spec
\* algorithm, in which negative table entries lower the score.
C10_SignedSum ==
  event = "score" => ret_score = SignedScoreOver(arg_genome, 0, NUM_STEPS)

\* The argument of random() for each field of a gene.
Howbig(f) ==
  IF f = "note" THEN NUM_NOTES
  ELSE IF f = "octave" THEN NUM_OCTAVES
  ELSE IF f = "waveform" THEN NUM_WAVEFORMS
  ELSE NUM_GATES

\* C11: a mutation pass with rate 0 changes nothing, one with rate 1 gives
\* every field of every gene a fresh draw from its domain, and one with the
\* configured rate redraws exactly the fields whose own trial succeeded and
\* keeps every other field, whatever subset of a gene's fields that is.
C11_PerField ==
  [][event' = "mutate" =>
       LET d == MutDraws(mut_in'.hits)
           fresh(i, j, f) == d[i][j][f].value % Howbig(f)
       IN /\ (mut_in'.threshold = 0 => population' = population)
          /\ (mut_in'.threshold = TRIAL_RANGE =>
                \A i \in Members, j \in Steps, f \in Fields :
                  /\ population'[i][f][j] = fresh(i, j, f)
                  /\ population'[i][f][j] \in 0 .. (Howbig(f) - 1))
          /\ (mut_in'.threshold = MUT_THRESHOLD =>
                \A i \in Members, j \in Steps, f \in Fields :
                  population'[i][f][j] =
                    IF <<i, j, f>> \in mut_in'.hits THEN fresh(i, j, f)
                    ELSE population[i][f][j])]_vars

\* C11 witness: with the configured rate, one pass changed the note and the
\* gate of a gene and kept its octave and waveform.
C11_TwoOfFour ==
  /\ event = "mutate"
  /\ mut_in = [threshold |-> MUT_THRESHOLD,
               hits |-> { <<0, 3, "note">>, <<0, 3, "gate">> }]
  /\ population[0].note[3] = 7 /\ population[0].gate[3] = 1
  /\ population[0].octave[3] = 1 /\ population[0].waveform[3] \in {0, 1}

\* C12: best_genome is a genome of the current population and best_score
\* is its score.
C12_BestInPopulation ==
  /\ \E k \in Members : best_genome = population[k]
  /\ best_score = evaluateGenome(best_genome)

\* C12 witness: after a reinforce the best genome is the mutated genome 0.
C12_MutatedBest ==
  /\ event = "tick" /\ ops = Reinforce
  /\ best_genome = population[0] /\ best_genome.note[0] = 7

\* C13: the beat level is high exactly after an odd number of ticks; the
\* number of ticks and current_step have the same parity, NUM_STEPS being even.
C13_BeatParity == beat_on = (current_step % 2 = 1)

\* C13 witness: the 64th tick of a traversal played a step whose gate is off,
\* ran reset and left the level low.
C13_LowAfterWrap ==
  /\ event = "tick" /\ current_step = 0 /\ ops = Reset
  /\ played.step = NUM_STEPS - 1 /\ played.gate = 0 /\ ~beat_on

\* C14 (as claimed): every lookup of a scored genome addresses a cell of the
\* 7x7 table: the row chord_type and the column scale_degree are in 0 .. 6.
C14_InsideTable ==
  event = "score" =>
    \A i \in Steps :
      LET seg == i \div (NUM_STEPS \div NUM_CHORDS)
      IN /\ ChordAt(seg, 0) \in 0 .. (TABLE_CELLS \div TABLE_COLS - 1)
         /\ scaleDegree(arg_genome.note[i], ChordAt(seg, 1)) \in 0 .. (TABLE_COLS - 1)

\* C15: whenever a handler has run initPopulation or mutatePopulation it
\* has run evaluatePopulation right after it, so in every state in which a
\* note can be played best_genome and best_score are what evaluatePopulation
\* yields for the population as it is.
C15_EvaluatedBeforePlay ==
  /\ \A k \in 1 .. Len(ops) :
       ops[k] \in {"initPopulation", "mutatePopulation"} =>
         (k < Len(ops) /\ ops[k + 1] = "evaluatePopulation")
  /\ evaluatePopulation(population, best_genome)
       = [score |-> best_score, genome |-> best_genome]

\* C15 witness: the first step after a reinforce plays the mutated note of
\* the new best genome.
C15_PlaysMutated ==
  /\ event = "tick" /\ played.step = 0 /\ current_step = 1
  /\ played.note = 7 /\ best_genome = population[0]

\* C16: every tick, at the wrap or not, leaves current_bpm at the value derived
\* from the tempo input read on that tick and step_time at
\* 60000 / current_bpm / 4 for that value.
C16_IntervalPerTick ==
  [][event' = "tick" =>
       /\ bpm_reading' \in AnalogReads
       /\ current_bpm' = bpm_reading' \div 4 + 60
       /\ step_time' = (60000 \div current_bpm') \div 4]_vars

\* C16 witness: a tick in the middle of a traversal read the highest tempo
\* input and left its interval for the next step.
C16_MidTraversal ==
  /\ event = "tick" /\ current_step = NUM_STEPS \div 2
  /\ bpm_reading = 1023 /\ current_bpm = 315 /\ step_time = 47

\* The genome whose steps i - 1 and i carry the given genes (stepScore of
\* step i reads nothing else).
PairGenome(i, pn, po, pg, n, o, w, g) ==
  [note |-> [j \in Steps |-> IF j = i THEN n ELSE pn],
   octave |-> [j \in Steps |-> IF j = i THEN o ELSE po],
   waveform |-> [j \in Steps |-> w],
   gate |-> [j \in Steps |-> IF j = i THEN g ELSE pg]]

\* Every score one step can add, over all in-domain genes of the step and of
\* its predecessor.
StepScores(i) ==
  { stepScore(PairGenome(i, pn, po, pg, n, o, w, g), i) :
      pn \in 0 .. (NUM_NOTES - 1), po \in 0 .. (NUM_OCTAVES - 1),
      pg \in 0 .. (NUM_GATES - 1), n \in 0 .. (NUM_NOTES - 1),
      o \in 0 .. (NUM_OCTAVES - 1), w \in 0 .. (NUM_WAVEFORMS - 1),
      g \in 0 .. (NUM_GATES - 1) }

\* One step of each kind: the first step, a later step of the first chord,
\* and the first step of each other chord.
StepKinds ==
  {0, 1} \cup { c * (NUM_STEPS \div NUM_CHORDS) : c \in 1 .. (NUM_CHORDS - 1) }

\* The range of one step over all in-domain genomes: a step adds at least
\* -54 and at most 251, so 64 steps stay above -9999 and inside 16 bits.
StepRange ==
  \A i \in StepKinds :
    \A v \in StepScores(i) :
      /\ v >= -54 /\ v <= 251
      /\ NUM_STEPS * v > SCORE_FLOOR
      /\ NUM_STEPS * v \in -32768 .. 32767

\* C17: after every evaluatePopulation best_score is above the -9999 it
\* started from and is the 16-bit value of a genome of the population, which
\* best_genome now is; no running sum of a genome of the population, and no
\* sum of 64 steps of any in-domain genome, leaves the 16-bit range or
\* reaches -9999.
C17_WinnerInstalled ==
  /\ StepRange
  /\ event = "evaluate" =>
       /\ best_score > SCORE_FLOOR
       /\ best_score \in -32768 .. 32767
       /\ \E k \in Members :
            best_genome = population[k] /\ best_score = evaluateGenome(population[k])
       /\ \A k \in Members :
            \A n \in 1 .. NUM_STEPS :
              scoreOver(population[k], 0, n) \in -32768 .. 32767

\* C17 witness: an evaluation replaced the zeroed best genome and moved the
\* best on from the first genome of the population to the last.
C17_LaterWinner ==
  /\ event = "evaluate" /\ best_genome # ZeroGenome
  /\ best_genome = population[POP_SIZE - 1] /\ best_genome # population[0]
  /\ best_score > evaluateGenome(population[0])

\* C18 (as claimed): a reinforce never lowers best_score.
C18_HillClimb ==
  [][(event' = "tick" /\ ops' = Reinforce) => best_score' >= best_score]_vars

====
